---- MODULE Spec2Model ----
(***************************************************************************)
(* Deterministic Plinko (src/main.js): the precomputed-path engine.        *)
(*                                                                         *)
(* Lengths are integers in tenths of a pixel (Scale units per pixel), so   *)
(* that the 800x1040 board has bucket top 8736 and ball start 520; times   *)
(* are milliseconds. A Math.random() value is a number of thousandths.     *)
(* Real-valued products are rounded down to the unit.                      *)
(*                                                                         *)
(* The per-step physics of generateAnimationPath (initial velocity,        *)
(* gravity, peg deflection, damping: all driven by Math.random()) is       *)
(* modelled by its effect on the position: each step draws a displacement  *)
(* and a peg-overlap count from small sets. Everything the code computes   *)
(* from the position (wall clamp, landing interpolation, keyframes, hit    *)
(* bookkeeping, validation, retries, the caller's bucket check, the bezier *)
(* fallback) is computed as the code computes it.                          *)
(*                                                                         *)
(* One attempt of generateAnimationPath is also modelled step by step at   *)
(* the resolution of the source (StepSpec), and the older real-time engine *)
(* of src/unnamed/part_000 by its handlers and callbacks (EngineSpec).     *)
(***************************************************************************)
EXTENDS Integers, Sequences, FiniteSets, TLC

\* ------------------------------------------------------------------ bounds
\* simulation steps per attempt (150 in the source, scaled down)
steps == 2
\* retries of generateAnimationPath (100 in the source, scaled down)
maxRetries == 2
\* attempts of handleDropBall (100 in the source, scaled down)
maxAttempts == 2
\* segments of the bezier fallback (50 in the source, scaled down)
bezierSegments == 3
\* accepted drops per run
MaxDrops == 2
\* frames per run, and the time between two frames
MaxFrames == 4
FrameMs == 1500
\* the widest layout, in pixels, of the layouts taken one by one
MaxLayoutWidth == 120

\* ------------------------------------------------------- program constants
bucketCount == 5
\* Lengths are counted in units of 1 / Scale pixel, the unit in which the bucket
\* centres and edges of a canvas of a whole number of pixels are whole numbers.
Scale == 2 * bucketCount
maxRowPegs == 11
maxWidth == 800
cleanupDelay == 1500
pathDuration == 2500
minHitsForEdge == 4
minFinalCheckPoints == 3
MaxPegOverlap == 2

\* values of Math.random(), in thousandths
Rand == {0, 500}
\* offsetWidth of .game-container, in pixels
ContainerWidths == {420, 1000}
\* integer codes of the JavaScript values null and NaN of a bucket number
NullBucket == -1
NaN == -2
\* what a bucket button can set selectedBucket to (parseInt of its text): an
\* edge bucket, the centre bucket, and the values that name no bucket
ButtonValues == {0, 1, 3, bucketCount + 1, NaN}

Min(a, b) == IF a <= b THEN a ELSE b
Max(a, b) == IF a >= b THEN a ELSE b
Abs(a) == IF a >= 0 THEN a ELSE -a
Sign(a) == IF a > 0 THEN 1 ELSE IF a < 0 THEN -1 ELSE 0
Last(s) == s[Len(s)]

\* ------------------------------------------------------------------- board
\* canvas.width for a container width (pixels in, units out)
CanvasWidthFor(containerWidth) == Scale * Min(containerWidth - 20, maxWidth)
CanvasHeight(w) == (13 * w) \div 10
PegRadius(w) == Scale * ((w \div Scale) \div 100)
BallRadius(w) == Scale * ((w \div Scale) \div 60)
\* horizontalSpacing of initPegs is canvas.width / (maxRowPegs + 1): the width
\* that maxRowPegs + 1 spacings take up
RowOfSpacings(w) == w
StartY(w) == (5 * CanvasHeight(w)) \div 100

\* a faulty layout: every bucket 110% of the standard width
BucketLocationsWidened(w) ==
    [n \in 1..bucketCount |->
        [x |-> ((2 * n - 1) * (w \div bucketCount)) \div 2,
         y |-> (84 * CanvasHeight(w)) \div 100,
         width |-> (11 * (w \div bucketCount)) \div 10,
         number |-> n]]

\* bucketLocations after initBuckets on a canvas of width w
BucketLocations(w) ==
    [n \in 1..bucketCount |->
        [x |-> ((2 * n - 1) * (w \div bucketCount)) \div 2,
         y |-> (84 * CanvasHeight(w)) \div 100,
         width |-> w \div bucketCount,
         number |-> n]]

BucketLeft(b) == b.x - b.width \div 2
BucketRight(b) == b.x + b.width \div 2

\* whether bucketLocations[index - 1] is defined (false for 0, 6 and NaN)
BucketExists(index) == index \in 1..bucketCount

\* the first bucket (in array order) whose closed span contains x, or null
FirstBucketContaining(w, x) ==
    LET hits == {n \in 1..bucketCount :
                    /\ x >= BucketLeft(BucketLocations(w)[n])
                    /\ x <= BucketRight(BucketLocations(w)[n])}
    IN IF hits = {} THEN NullBucket ELSE CHOOSE n \in hits : \A m \in hits : n <= m

\* ------------------------------------------------- calculateInitialBallPosition
\* the start x for the four Math.random() values the function draws
calculateInitialBallPosition(w, r1, r2, r3, r4) ==
    LET safetyMargin == BallRadius(w) * 3
        minX == safetyMargin
        maxX == w - safetyMargin
    IN IF r2 < 300
       THEN IF r3 < 500
            THEN minX + (r4 * ((w * 25) \div 100)) \div 1000
            ELSE (w * 75) \div 100 + (r4 * (maxX - (w * 75) \div 100)) \div 1000
       ELSE minX + (r1 * (maxX - minX)) \div 1000

InitialBallPositions(w) ==
    {calculateInitialBallPosition(w, r1, r2, r3, r4) : r1 \in Rand, r2 \in Rand,
                                                       r3 \in Rand, r4 \in Rand}

\* ------------------------------------------------------- generateAnimationPath
\* totalDurationMs = 2500 + Math.random() * 1000, for a draw of one half
TotalDurations == {2500 + (r * 1000) \div 1000 : r \in {500}}

\* The displacement of one simulation step (velocity times timeStep / 16, peg
\* push-outs included) and the number of pegs still overlapping afterwards:
\* sideways by 7/80 of the width either way, down by a quarter of the fall or
\* by the whole fall, clear of the pegs or overlapping as many as can overlap.
StepDraws(w) ==
    LET fall == BucketLocations(w)[1].y - StartY(w)
    IN [dx : {-((7 * w) \div 80), (7 * w) \div 80},
        dy : {fall \div 4, fall},
        overlap : {0, MaxPegOverlap}]

\* the simulation state at the start of an attempt (lines 1305-1369)
SimStart(startX, startY) ==
    [x |-> startX, y |-> startY,
     path |-> <<[x |-> startX, y |-> startY, time |-> 0]>>,
     hitCount |-> 0, hitWall |-> FALSE, isValidPath |-> FALSE,
     landed |-> FALSE, duration |-> 0]

\* one iteration i of the step loop, for the draw d
SimStep(w, targetBucketIndex, totalDurationMs, i, s, d) ==
    LET target == BucketLocations(w)[targetBucketIndex]
        targetX == target.x
        targetY == target.y
        timeStep == totalDurationMs \div steps
        time == i * timeStep
        ballRadius == BallRadius(w)
        \* 5. update position, 6. walls and top
        movedX == s.x + d.dx
        currentX == IF movedX - ballRadius < 0 THEN ballRadius
                    ELSE IF movedX + ballRadius > w THEN w - ballRadius
                    ELSE movedX
        currentY == Max(s.y + d.dy, s.path[1].y)
        prevPoint == Last(s.path)
        dyTotal == currentY - prevPoint.y
        dyNeeded == targetY - prevPoint.y
        \* t = dyTotal === 0 ? 1 : clamp(dyNeeded / dyTotal, 0, 1), as tNum / tDen
        tDen == IF dyTotal = 0 THEN 1 ELSE Abs(dyTotal)
        tNum == IF dyTotal = 0 THEN 1
                ELSE Max(0, Min(tDen, dyNeeded * Sign(dyTotal)))
        finalX == prevPoint.x + ((currentX - prevPoint.x) * tNum) \div tDen
        finalTime == prevPoint.time + ((time - prevPoint.time) * tNum) \div tDen
        safetyMargin == target.width \div 10
        safeLeft == BucketLeft(target) + safetyMargin
        safeRight == BucketRight(target) - safetyMargin
        maxSafeVelocity == 2 * Scale
        rejected == \/ finalX < safeLeft
                    \/ finalX > safeRight
                    \/ Abs(currentX - prevPoint.x) > maxSafeVelocity
    IN IF currentY >= targetY
       THEN \* target y reached: interpolate the landing point and leave the loop
            [s EXCEPT !.x = currentX, !.y = currentY,
                      !.isValidPath = IF rejected THEN FALSE ELSE @,
                      !.path = Append(@, [x |-> finalX, y |-> targetY,
                                          time |-> finalTime]),
                      !.duration = finalTime,
                      !.landed = TRUE]
       ELSE [s EXCEPT !.x = currentX, !.y = currentY,
                      !.hitCount = d.overlap,
                      !.hitWall = \/ @
                                  \/ currentX <= ballRadius
                                  \/ currentX >= w - ballRadius,
                      !.path = IF i < steps
                               THEN Append(@, [x |-> currentX, y |-> currentY,
                                               time |-> time])
                               ELSE IF Last(@).y < targetY
                                    THEN Append(@, [x |-> targetX, y |-> targetY,
                                                    time |-> totalDurationMs])
                                    ELSE @,
                      !.duration = IF i < steps THEN @ ELSE totalDurationMs]

\* the step loop from iteration i on: every simulation state it can end in
RECURSIVE SimRun(_, _, _, _, _)
SimRun(w, targetBucketIndex, totalDurationMs, i, s) ==
    IF i > steps \/ s.landed
    THEN {s}
    ELSE UNION {SimRun(w, targetBucketIndex, totalDurationMs, i + 1,
                       SimStep(w, targetBucketIndex, totalDurationMs, i, s, d))
                : d \in StepDraws(w)}

\* "Stricter Path Validation" (lines 1583-1616): isValidPath after an attempt
ValidatePath(w, targetBucketIndex, s) ==
    LET targetX == BucketLocations(w)[targetBucketIndex].x
        isEdgeBucket == targetBucketIndex = 1 \/ targetBucketIndex = bucketCount
        edgeRejected == isEdgeBucket /\ s.hitWall /\ s.hitCount < minHitsForEdge
        lastPoint == s.path[Len(s.path)]
        secondLastPoint == s.path[Len(s.path) - 1]
        finalVx == lastPoint.x - secondLastPoint.x
        neededDx == targetX - secondLastPoint.x
        offTargetThreshold == ((w \div bucketCount) * 3) \div 10
        directionRejected ==
            /\ Len(s.path) >= minFinalCheckPoints
            /\ Abs(neededDx) > offTargetThreshold
            /\ Sign(finalVx) # 0
            /\ Sign(finalVx) # Sign(neededDx)
    IN ~edgeRejected /\ ~directionRejected

\* every result of one attempt of the do-loop: the simulation, then validation
Attempts(w, targetBucketIndex, startX, totalDurationMs) ==
    {[s EXCEPT !.isValidPath = ValidatePath(w, targetBucketIndex, s)] :
        s \in SimRun(w, targetBucketIndex, totalDurationMs, 1,
                     SimStart(startX, StartY(w)))}

\* The do-loop from retry count `retries` on, and what follows it, `tries` being
\* the results an attempt can have (the same at every retry). An outcome is
\* returned (the path) or threw: after the last rejected attempt the function
\* assigns to its const maxRetries (line 1643), a TypeError. setsDuration tells
\* whether the global animationDuration was assigned, and duration its value.
RECURSIVE RetryLoop(_, _)
RetryLoop(tries, retries) ==
    LET accepted == {s \in tries : s.isValidPath}
        rejected == {s \in tries : ~s.isValidPath}
    IN {[kind |-> "return", path |-> s.path,
         setsDuration |-> TRUE, duration |-> s.duration] : s \in accepted}
       \cup
       (IF rejected = {} THEN {}
        ELSE IF retries + 1 < maxRetries
        THEN RetryLoop(tries, retries + 1)
        ELSE {[kind |-> "throw", path |-> <<>>,
               setsDuration |-> TRUE, duration |-> s.duration] : s \in rejected})

\* every outcome of generateAnimationPath(startX, startY, targetBucketIndex)
generateAnimationPath(w, startX, targetBucketIndex) ==
    IF ~BucketExists(targetBucketIndex)
    THEN {[kind |-> "return",
           path |-> <<[x |-> startX, y |-> StartY(w), time |-> 0],
                      [x |-> startX, y |-> CanvasHeight(w) + 50 * Scale,
                       time |-> 1000]>>,
           setsDuration |-> FALSE, duration |-> 0]}
    ELSE UNION {RetryLoop({s : s \in Attempts(w, targetBucketIndex, startX,
                                               totalDurationMs)}, 0) :
                    totalDurationMs \in TotalDurations}

\* ----------------------------------------------------------- handleDropBall
\* The "direct approach" of lines 2160-2206: the bezier arc for the start draw
\* rs and the end-point draws re[0..bezierSegments] (one per generated point).
BezierPath(w, selected, rs, re) ==
    LET target == BucketLocations(w)[selected]
        verifiedStartX == target.x + ((rs - 500) * 20 * Scale) \div 1000
        n == bezierSegments
        startY == StartY(w)
        endY == target.y
        controlY == Min(startY, endY) - (2 * CanvasHeight(w)) \div 10
        endX(i) == target.x + ((re[i] - 500) * 10 * Scale) \div 1000
        controlX(i) == (verifiedStartX + endX(i)) \div 2
        xt(i) == ((n - i) * (n - i) * verifiedStartX
                  + 2 * (n - i) * i * controlX(i)
                  + i * i * endX(i)) \div (n * n)
        yt(i) == ((n - i) * (n - i) * startY
                  + 2 * (n - i) * i * controlY
                  + i * i * endY) \div (n * n)
    IN [startX |-> verifiedStartX,
        path |-> [k \in 1..(n + 1) |->
                    [x |-> xt(k - 1), y |-> yt(k - 1),
                     time |-> ((k - 1) * pathDuration) \div n]]]

\* the Math.random() values of the end point, one per generated point: all
\* low, all high, or alternating
BezierEndDraws ==
    {[i \in 0..bezierSegments |-> r] : r \in Rand}
    \cup {[i \in 0..bezierSegments |-> IF i % 2 = 0 THEN 0 ELSE 500]}

\* what follows the while-loop when no attempt was accepted
Fallback(w, selected) ==
    IF ~BucketExists(selected)
    THEN \* bucketLocations[selectedBucket - 1] is undefined: reading its x is a
         \* TypeError
         {[kind |-> "throw", startX |-> 0, path |-> <<>>,
           setsDuration |-> FALSE, duration |-> 0]}
    ELSE {[kind |-> "install", startX |-> b.startX, path |-> b.path,
           setsDuration |-> FALSE, duration |-> 0] :
            b \in {BezierPath(w, selected, rs, re) :
                      rs \in Rand, re \in BezierEndDraws}}

\* a faulty check of a test path: any path of two keyframes passes
LandsAnywhere(w, selected, testPath) == Len(testPath) > 1

\* whether handleDropBall accepts a test path (lines 2131-2157)
LandsInSelected(w, selected, testPath) ==
    /\ Len(testPath) > 1
    /\ FirstBucketContaining(w, Last(testPath).x) = selected
    /\ selected # NaN

\* what one pass of the while-loop can compute: a test start and the outcome
\* of generateAnimationPath for it
TestPaths(w, selected) ==
    UNION {{[start |-> testStartX, out |-> o] :
                o \in generateAnimationPath(w, testStartX, selected)} :
           testStartX \in InitialBallPositions(w)}

\* The while-loop from the attempt count `attempts` on, and what follows it,
\* `tests` being what a pass can compute (the same at every pass): every
\* outcome of the synthesis part of handleDropBall. "install" carries the
\* verified start and path; "throw" is an error that leaves the handler.
RECURSIVE AttemptLoop(_, _, _, _)
AttemptLoop(w, selected, tests, attempts) ==
    LET threw == {t \in tests : t.out.kind = "throw"}
        returned == {t \in tests : t.out.kind = "return"}
        verified == {t \in returned : LandsInSelected(w, selected, t.out.path)}
    IN {[kind |-> "throw", startX |-> 0, path |-> <<>>,
         setsDuration |-> t.out.setsDuration, duration |-> t.out.duration] :
            t \in threw}
       \cup
       {[kind |-> "install", startX |-> t.start, path |-> t.out.path,
         setsDuration |-> FALSE, duration |-> 0] : t \in verified}
       \cup
       (IF returned \ verified = {} THEN {}
        ELSE IF attempts + 1 < maxAttempts
        THEN AttemptLoop(w, selected, tests, attempts + 1)
        ELSE Fallback(w, selected))

CanvasWidths == {CanvasWidthFor(c) : c \in ContainerWidths}

\* the outcomes of the synthesis of handleDropBall on the board of width w
\* for the selected bucket
Synthesis(w, selected) ==
    AttemptLoop(w, selected, {t : t \in TestPaths(w, selected)}, 0)

\* the outcomes for each board and each selected bucket
DropOutcomes ==
    {d : d \in UNION {{[w |-> w, selected |-> b, o |-> o] : o \in Synthesis(w, b)} :
                         w \in CanvasWidths, b \in ButtonValues}}

\* ------------------------------------------- the real-time engine (part_000)
\* The engine's state after initGame: no selection, no ball (0 for null, else
\* the number of the drop that created it), no requestAnimationFrame callback
\* and no slowDownInterval pending (initGame requests no frame). intervals holds
\* the bucket each pending slowDownInterval closed over, highlightTime the
\* highlightTime of each bucket, clock is Date.now(), fallen counts the
\* updateBall calls that moved the ball in flight, and updates those of the
\* latest frame.
EngineStart ==
    [selectedBucket |-> NullBucket, isGameActive |-> FALSE, gameState |-> "ready",
     ball |-> 0, targetBucket |-> NullBucket, landingHandled |-> FALSE,
     totalDrops |-> 0, successfulDrops |-> 0, pending |-> 0, intervals |-> {},
     highlightTime |-> [b \in 1..bucketCount |-> 0], clock |-> 0, fallen |-> 0,
     updates |-> 0]

\* ------------------------------------------------------------------- state
VARIABLES
    canvasWidth,            \* canvas.width (bucketLocations follows from it)
    selectedBucket,         \* NullBucket, or what the last bucket button parsed to
    isGameActive,
    gameState,              \* "ready", "dropping", "completed"
    ball,                   \* <<>> for null, else <<[x, y]>>
    targetBucket,
    animationPath,          \* <<>> for null, else the keyframes
    animationStartTime,
    animationDuration,
    landingHandled,
    gameStats,
    currentCleanupInterval, \* 0 for null, else a timer id
    timers,                 \* the pending setTimeout callbacks: [id, due, drop],
                            \* drop being the number of the drop that set it
    now,                    \* the clock (performance.now(), Date.now())
    thrown,                 \* history: the last handler ended by an uncaught error
    landings,               \* history: effective handleBallLanding calls of this drop
    landedAt,               \* history: the time of the landing counted for this
                            \* drop, 0 before it
    genResult,              \* <<>>, or <<the last call of generateAnimationPath on
                            \* its own: its arguments and its outcome>>
    sim,                    \* <<>>, or <<the attempt of generateAnimationPath that
                            \* is simulated step by step>>
    engine                  \* the state of the real-time engine (part_000)

vars == <<canvasWidth, selectedBucket, isGameActive, gameState, ball, targetBucket,
          animationPath, animationStartTime, animationDuration, landingHandled,
          gameStats, currentCleanupInterval, timers, now, thrown, landings,
          landedAt, genResult, sim, engine>>

bucketLocations == BucketLocations(canvasWidth)

Init ==
    /\ canvasWidth \in CanvasWidths
    /\ selectedBucket = NullBucket
    /\ isGameActive = FALSE
    /\ gameState = "ready"
    /\ ball = <<>>
    /\ targetBucket = NullBucket
    /\ animationPath = <<>>
    /\ animationStartTime = 0
    /\ animationDuration = 0
    /\ landingHandled = FALSE
    /\ gameStats = [totalDrops |-> 0, successfulDrops |-> 0,
                    lastResult |-> "null", lastBucketLanded |-> NullBucket]
    /\ currentCleanupInterval = 0
    /\ timers = {}
    /\ now = 0
    /\ thrown = FALSE
    /\ landings = 0
    /\ landedAt = 0
    /\ genResult = <<>>
    /\ sim = <<>>
    /\ engine = EngineStart

\* ------------------------------------------------------------- the handlers
\* window 'resize': resizeCanvas
ResizeCanvas ==
    \E containerWidth \in ContainerWidths :
        /\ canvasWidth' = CanvasWidthFor(containerWidth)
        /\ thrown' = FALSE
        /\ UNCHANGED <<selectedBucket, isGameActive, gameState, ball, targetBucket,
                       animationPath, animationStartTime, animationDuration,
                       landingHandled, gameStats, currentCleanupInterval, timers,
                       now, landings, landedAt, genResult, sim, engine>>

\* a faulty early return: a click during a drop selects all the same
SelectionNeverIgnored == FALSE

\* the early return of handleBucketSelection (line 2075)
SelectionIgnored == isGameActive

\* click on a bucket button: handleBucketSelection
HandleBucketSelection ==
    \E parsed \in ButtonValues :
        /\ selectedBucket' = IF SelectionIgnored THEN selectedBucket ELSE parsed
        /\ thrown' = FALSE
        /\ UNCHANGED <<canvasWidth, isGameActive, gameState, ball, targetBucket,
                       animationPath, animationStartTime, animationDuration,
                       landingHandled, gameStats, currentCleanupInterval, timers,
                       now, landings, landedAt, genResult, sim, engine>>

\* a faulty early return: a drop request during a drop is served
DropRequestIgnoredOnlyUnselected == selectedBucket = NullBucket

\* the early return of handleDropBall (line 2102)
DropRequestIgnored == isGameActive \/ selectedBucket = NullBucket

\* a faulty duration: the time of the first keyframe
DurationOfFirstKeyframe(verifiedPath) == verifiedPath[1].time

\* animationDuration as handleDropBall sets it (line 2234)
DurationOf(verifiedPath) == verifiedPath[Len(verifiedPath)].time

\* click on the drop button: handleDropBall
HandleDropBall ==
    /\ gameStats.totalDrops < MaxDrops
    /\ IF DropRequestIgnored
       THEN /\ thrown' = FALSE
            /\ UNCHANGED <<canvasWidth, selectedBucket, isGameActive, gameState,
                           ball, targetBucket, animationPath, animationStartTime,
                           animationDuration, landingHandled, gameStats,
                           currentCleanupInterval, timers, now, landings, landedAt, genResult, sim, engine>>
       ELSE \E d \in DropOutcomes :
              /\ d.w = canvasWidth
              /\ d.selected = selectedBucket
              /\ LET o == d.o
                 IN IF o.kind = "throw"
                    THEN \* the error leaves the handler after line 2108
                         /\ isGameActive' = TRUE
                         /\ animationDuration' =
                              IF o.setsDuration THEN o.duration ELSE animationDuration
                         /\ thrown' = TRUE
                         /\ UNCHANGED <<canvasWidth, selectedBucket, gameState, ball,
                                        targetBucket, animationPath, animationStartTime,
                                        landingHandled, gameStats, currentCleanupInterval,
                                        timers, now, landings, landedAt, genResult, sim, engine>>
                    ELSE /\ targetBucket' = selectedBucket
                         /\ landingHandled' = FALSE
                         /\ gameStats' = [gameStats EXCEPT !.lastBucketLanded = NullBucket,
                                                           !.totalDrops = @ + 1]
                         /\ gameState' = "dropping"
                         /\ ball' = <<[x |-> o.startX, y |-> StartY(canvasWidth)]>>
                         /\ animationPath' = o.path
                         /\ animationStartTime' = now
                         /\ animationDuration' = DurationOf(o.path)
                         /\ isGameActive' = TRUE
                         /\ thrown' = FALSE
                         /\ landings' = 0
                         /\ landedAt' = 0
                         /\ UNCHANGED <<canvasWidth, selectedBucket,
                                        currentCleanupInterval, timers, now, genResult, sim, engine>>

\* a faulty reset: the state goes to ready but the drop stays in flight
resetBallLeavingDropInFlight ==
    [currentCleanupInterval |-> 0,
     ball |-> ball,
     targetBucket |-> targetBucket,
     animationPath |-> animationPath,
     animationStartTime |-> animationStartTime,
     animationDuration |-> animationDuration,
     landingHandled |-> FALSE,
     isGameActive |-> isGameActive,
     gameState |-> "ready"]

\* what resetBall assigns (lines 1816-1844)
resetBall ==
    [currentCleanupInterval |-> 0,
     ball |-> <<>>,
     targetBucket |-> NullBucket,
     animationPath |-> <<>>,
     animationStartTime |-> 0,
     animationDuration |-> 0,
     landingHandled |-> FALSE,
     isGameActive |-> FALSE,
     gameState |-> "ready"]

\* the condition of handleReset (line 2249): only then resetBall is called
ResetTakesEffect == isGameActive \/ ball # <<>>

\* what the state is after handleReset ran (lines 2247-2252)
handleReset ==
    IF ResetTakesEffect
    THEN resetBall
    ELSE [currentCleanupInterval |-> currentCleanupInterval,
          ball |-> ball,
          targetBucket |-> targetBucket,
          animationPath |-> animationPath,
          animationStartTime |-> animationStartTime,
          animationDuration |-> animationDuration,
          landingHandled |-> landingHandled,
          isGameActive |-> isGameActive,
          gameState |-> gameState]

\* click on the reset button: handleReset, resetBall
HandleReset ==
    /\ thrown' = FALSE
    /\ timers' = IF ResetTakesEffect
                 THEN {tm \in timers : tm.id # currentCleanupInterval}
                 ELSE timers
    /\ currentCleanupInterval' = handleReset.currentCleanupInterval
    /\ ball' = handleReset.ball
    /\ targetBucket' = handleReset.targetBucket
    /\ animationPath' = handleReset.animationPath
    /\ animationStartTime' = handleReset.animationStartTime
    /\ animationDuration' = handleReset.animationDuration
    /\ landingHandled' = handleReset.landingHandled
    /\ isGameActive' = handleReset.isGameActive
    /\ gameState' = handleReset.gameState
    /\ UNCHANGED <<canvasWidth, selectedBucket, gameStats, now, landings, landedAt, genResult, sim, engine>>

\* ------------------------------------------------------ updateBallAnimation
\* the bucket the landing branch decides the ball is in (lines 726-765)
ActualBucket(w, finalX, target) ==
    LET first == FirstBucketContaining(w, finalX)
        \* no bucket contains finalX: the closest-bucket fallback keeps bucket 1
        visual == IF first # NullBucket THEN first ELSE 1
        targetBucketObj == BucketLocations(w)[target]
        distanceToTarget == Abs(finalX - targetBucketObj.x)
    IN IF visual # target /\ distanceToTarget < (targetBucketObj.width * 4) \div 10
       THEN target
       ELSE visual

\* a faulty interpolation: the ball is put on the keyframe that starts the path
StartOfPath(path, elapsedTime) == [x |-> path[1].x, y |-> path[1].y]

\* the ball position of the interpolation branch (lines 845-889), for a path
\* of at least two keyframes
InterpolatedPosition(path, elapsedTime) ==
    LET n == Len(path)
        found == {i \in 1..(n - 1) :
                    elapsedTime >= path[i].time /\ elapsedTime < path[i + 1].time}
        first == CHOOSE i \in found : \A j \in found : i <= j
        segmentStart == IF found # {} THEN path[first]
                        ELSE IF elapsedTime >= path[n].time THEN path[n]
                        ELSE path[1]
        segmentEnd == IF found # {} THEN path[first + 1]
                      ELSE IF elapsedTime >= path[n].time THEN path[n]
                      ELSE path[2]
        segmentDuration == segmentEnd.time - segmentStart.time
        timeIntoSegment == elapsedTime - segmentStart.time
        \* t as tNum / tDen, clamped to [0, 1]
        tDen == IF segmentDuration > 0 THEN segmentDuration ELSE 1
        tNum == IF segmentDuration > 0 THEN Max(0, Min(tDen, timeIntoSegment))
                ELSE IF elapsedTime >= segmentStart.time THEN 1 ELSE 0
    IN [x |-> segmentStart.x + ((segmentEnd.x - segmentStart.x) * tNum) \div tDen,
        y |-> segmentStart.y + ((segmentEnd.y - segmentStart.y) * tNum) \div tDen]

\* a faulty handleBallLanding: no landingHandled guard, and the flag is not set
handleBallLandingUnguarded(stats, handled, bucketNumber, isTargetBucket) ==
    [gameStats |->
        [stats EXCEPT !.lastBucketLanded = bucketNumber,
                      !.successfulDrops = IF isTargetBucket THEN @ + 1 ELSE @,
                      !.lastResult = IF isTargetBucket THEN "success"
                                     ELSE "failure"],
     landingHandled |-> FALSE,
     counted |-> TRUE]

\* handleBallLanding(bucketNumber, isTargetBucket) for the statistics `stats`
\* and the flag `handled`: both afterwards, and whether the landing was counted
handleBallLanding(stats, handled, bucketNumber, isTargetBucket) ==
    IF handled
    THEN [gameStats |-> stats, landingHandled |-> handled, counted |-> FALSE]
    ELSE [gameStats |->
            [stats EXCEPT !.lastBucketLanded = bucketNumber,
                          !.successfulDrops = IF isTargetBucket THEN @ + 1 ELSE @,
                          !.lastResult = IF isTargetBucket THEN "success"
                                         ELSE "failure"],
          landingHandled |-> TRUE,
          counted |-> TRUE]

\* the id setTimeout returns: one no pending timer has
FreshTimerId(pending) ==
    CHOOSE id \in 1..(Cardinality(pending) + 1) : \A tm \in pending : tm.id # id

\* a faulty landing branch: the pending timeout is not cleared
NothingCleared == timers

\* "Clear previous timer if exists" (line 825): the timeouts left pending
PendingAfterClear == {tm \in timers : tm.id # currentCleanupInterval}

\* the landing branch of updateBallAnimation (lines 709-843)
LandingBranch(currentTime) ==
    LET finalPoint == Last(animationPath)
        actualBucket == ActualBucket(canvasWidth, finalPoint.x, targetBucket)
        landedInTarget == actualBucket = targetBucket
        kept == PendingAfterClear
        id == FreshTimerId(kept)
    IN /\ ball' = <<[x |-> finalPoint.x, y |-> finalPoint.y]>>
       /\ IF ~landingHandled
          THEN LET landing == handleBallLanding(gameStats, landingHandled,
                                                actualBucket, landedInTarget)
               IN /\ gameStats' = landing.gameStats
                  /\ landingHandled' = landing.landingHandled
                  /\ landings' = IF landing.counted THEN landings + 1
                                 ELSE landings
                  /\ landedAt' = IF landing.counted THEN currentTime
                                 ELSE landedAt
          ELSE UNCHANGED <<gameStats, landingHandled, landings, landedAt>>
       /\ isGameActive' = FALSE
       /\ gameState' = "completed"
       /\ IF BucketExists(targetBucket)
          THEN \* the cleanup timeout replaces the pending one
               /\ timers' = kept \cup {[id |-> id, due |-> currentTime + cleanupDelay,
                                        drop |-> gameStats.totalDrops]}
               /\ currentCleanupInterval' = id
          ELSE UNCHANGED <<timers, currentCleanupInterval>>
       /\ UNCHANGED <<canvasWidth, selectedBucket, targetBucket, animationPath,
                      animationStartTime, animationDuration, genResult, sim, engine>>

\* a faulty completion test: the animation is never found complete
AnimationNeverComplete(currentTime) == FALSE

\* "Check if animation is complete" (lines 704, 709)
AnimationComplete(currentTime) ==
    currentTime - animationStartTime >= animationDuration

updateBallAnimation(currentTime) ==
    IF ball = <<>> \/ animationPath = <<>> \/ ~isGameActive
    THEN /\ thrown' = FALSE
         /\ UNCHANGED <<canvasWidth, selectedBucket, isGameActive, gameState, ball,
                        targetBucket, animationPath, animationStartTime,
                        animationDuration, landingHandled, gameStats,
                        currentCleanupInterval, timers, landings, landedAt,
                        genResult, sim, engine>>
    ELSE IF AnimationComplete(currentTime)
    THEN /\ thrown' = FALSE
         /\ LandingBranch(currentTime)
    ELSE \* a path of one keyframe has no animationPath[1]: reading the time of
         \* segmentEnd (line 864) is a TypeError, before ball is assigned
         /\ thrown' = (Len(animationPath) < 2)
         /\ ball' = IF Len(animationPath) < 2 THEN ball
                    ELSE <<InterpolatedPosition(animationPath,
                                                currentTime - animationStartTime)>>
         /\ UNCHANGED <<canvasWidth, selectedBucket, isGameActive, gameState,
                        targetBucket, animationPath, animationStartTime,
                        animationDuration, landingHandled, gameStats,
                        currentCleanupInterval, timers, landings, landedAt,
                        genResult, sim, engine>>

\* requestAnimationFrame callback: gameLoop(timestamp), one frame later. The
\* clock stops at MaxFrames frames, or later at the end of the animation of a
\* drop in flight.
Frame ==
    /\ \/ now < MaxFrames * FrameMs
       \/ gameState = "dropping" /\ now - animationStartTime < animationDuration
    /\ now' = now + FrameMs
    /\ IF isGameActive
       THEN updateBallAnimation(now')
       ELSE /\ thrown' = FALSE
            /\ UNCHANGED <<canvasWidth, selectedBucket, isGameActive, gameState,
                           ball, targetBucket, animationPath, animationStartTime,
                           animationDuration, landingHandled, gameStats,
                           currentCleanupInterval, timers, landings, landedAt,
                           genResult, sim, engine>>

\* a faulty timeout callback: it takes the ball away whatever the game state
CleanupRemovesAnyBall == ball # <<>>

\* the condition of the timeout callback (line 829)
CleanupRemovesBall == ball # <<>> /\ gameState = "completed"

\* the cleanup timeout of lines 827-839 fires
CleanupTimeout ==
    \E tm \in timers :
        /\ tm.due <= now
        /\ timers' = timers \ {tm}
        /\ ball' = IF CleanupRemovesBall THEN <<>> ELSE ball
        /\ currentCleanupInterval' = 0
        /\ thrown' = FALSE
        /\ UNCHANGED <<canvasWidth, selectedBucket, isGameActive, gameState,
                       targetBucket, animationPath, animationStartTime,
                       animationDuration, landingHandled, gameStats, now, landings, landedAt,
                       genResult, sim, engine>>

Next ==
    \/ ResizeCanvas
    \/ HandleBucketSelection
    \/ HandleDropBall
    \/ HandleReset
    \/ Frame
    \/ CleanupTimeout

Spec == Init /\ [][Next]_vars

\* gameLoop requests the next frame at the end of every frame (line 1946)
LiveSpec == Spec /\ WF_vars(Frame)

\* ------------------------------------------- generateAnimationPath on its own
\* the targetBucketIndex arguments: every bucket, and values naming no bucket
TargetArguments == (0..(bucketCount + 1)) \cup {NaN}

\* one call generateAnimationPath(startX, canvas.height * 0.05, target), as
\* handleDropBall makes it at line 2127, with what it leaves behind
CallGenerateAnimationPath ==
    /\ genResult = <<>>
    /\ \E startX \in InitialBallPositions(canvasWidth), target \in TargetArguments :
         \E o \in generateAnimationPath(canvasWidth, startX, target) :
            /\ genResult' = <<[startX |-> startX, target |-> target,
                               kind |-> o.kind, path |-> o.path]>>
            /\ animationDuration' =
                 IF o.setsDuration THEN o.duration ELSE animationDuration
            /\ thrown' = (o.kind = "throw")
    /\ UNCHANGED <<canvasWidth, selectedBucket, isGameActive, gameState, ball,
                   targetBucket, animationPath, animationStartTime, landingHandled,
                   gameStats, currentCleanupInterval, timers, now, landings, landedAt,
                   sim, engine>>

GenNext == CallGenerateAnimationPath

GenSpec == Init /\ [][GenNext]_vars

\* ------------------------------------------------------ resizeCanvas on its own
\* offsetWidth of .game-container for the layouts taken one by one: the
\* zero-size layout (computed width 0), every width up to MaxLayoutWidth, and
\* the containers of the game
LayoutContainerWidths == (20..(20 + MaxLayoutWidth)) \cup ContainerWidths

LayoutInit ==
    /\ Init
    /\ canvasWidth = CanvasWidthFor(420)

\* resizeCanvas for any of these containers: initPegs and initBuckets lay the
\* board out anew
LayoutResize ==
    \E containerWidth \in LayoutContainerWidths :
        /\ canvasWidth' = CanvasWidthFor(containerWidth)
        /\ thrown' = FALSE
        /\ UNCHANGED <<selectedBucket, isGameActive, gameState, ball, targetBucket,
                       animationPath, animationStartTime, animationDuration,
                       landingHandled, gameStats, currentCleanupInterval, timers,
                       now, landings, landedAt, genResult, sim, engine>>

LayoutNext == LayoutResize

LayoutSpec == LayoutInit /\ [][LayoutNext]_vars

\* ------------------------------------------------ updateBallAnimation on its own
\* animationStartTime of the queried animation (performance.now() at the drop)
QueryStart == 1000

\* the elapsed times queried: before the start, the start, inside the segments,
\* on keyframes, the end, after the end
QueryElapsed == {-500, 0, 200, 400, 700, 1000, 1500}

\* the keyframe positions and the times of the keyframes after the first
QueryPoints == {[x |-> 1000, y |-> 520], [x |-> 3000, y |-> 8736]}
QueryKeyTimes == {400, 1000}

Keyframe(p, time) == [x |-> p.x, y |-> p.y, time |-> time]

\* trajectories of one, two and three keyframes, the first at time 0; the
\* times of the others increase, repeat or decrease
QueryPaths ==
    {<<Keyframe(p, 0)>> : p \in QueryPoints}
    \cup {<<Keyframe(p, 0), Keyframe(q, t)>> :
             p \in QueryPoints, q \in QueryPoints, t \in QueryKeyTimes}
    \cup {<<Keyframe(p, 0), Keyframe(q, t), Keyframe(r, u)>> :
             p \in QueryPoints, q \in QueryPoints, r \in QueryPoints,
             t \in QueryKeyTimes, u \in QueryKeyTimes}

\* an animation in flight, as lines 2209-2244 leave it, for any trajectory and
\* any ball position
AnimInit ==
    /\ canvasWidth = Scale * maxWidth
    /\ selectedBucket = 1
    /\ isGameActive = TRUE
    /\ gameState = "dropping"
    /\ ball \in {<<p>> : p \in QueryPoints}
    /\ targetBucket = 1
    /\ animationPath \in QueryPaths
    /\ animationStartTime = QueryStart
    /\ animationDuration = DurationOf(animationPath)
    /\ landingHandled = FALSE
    /\ gameStats = [totalDrops |-> 1, successfulDrops |-> 0,
                    lastResult |-> "null", lastBucketLanded |-> NullBucket]
    /\ currentCleanupInterval = 0
    /\ timers = {}
    /\ now = 0
    /\ thrown = FALSE
    /\ landings = 0
    /\ landedAt = 0
    /\ genResult = <<>>
    /\ sim = <<>>
    /\ engine = EngineStart

\* one call updateBallAnimation(currentTime), as gameLoop makes it (line 1933)
QueryAnimation ==
    \E elapsedTime \in QueryElapsed :
        /\ now' = QueryStart + elapsedTime
        /\ updateBallAnimation(now')

AnimNext == QueryAnimation

AnimSpec == AnimInit /\ [][AnimNext]_vars

\* ------------------------- one attempt of generateAnimationPath, step by step
\* The first attempt of the do-loop (retries = 0) at the resolution of the
\* source: loopSteps steps of timeStep ms, the pegs of initPegs one by one.
\* Lengths are in 1 / Fine pixel, velocities in thousandths of a pixel per
\* 16 ms, factors and angles in thousandths; every quotient is rounded down.
\* Within one attempt every Math.random() of the initial velocity returns one
\* value and every Math.random() of the peg deflections returns one value.
loopSteps == 150
pegRows == 9
gravity == 300
maxFallVelocity == 15000
hitDampingMs == 180
Fine == Scale * Scale
\* lastHitTime = -Infinity
NeverHit == -1

FineBallRadius(fw) == Fine * ((fw \div Fine) \div 60)
FinePegRadius(fw) == Fine * ((fw \div Fine) \div 100)
\* minDist = peg.radius + GAME_CONFIG.ballRadius * 2 + 2
MinDist(fw) == FinePegRadius(fw) + 2 * FineBallRadius(fw) + 2 * Fine

\* Math.round(1 + row / (pegRows - 1) * (maxRowPegs - 1)), clamped
PegsInRow(row) ==
    Max(1, Min((3 * (pegRows - 1) + 2 * row * (maxRowPegs - 1))
               \div (2 * (pegRows - 1)), maxRowPegs))

PegAt(fw, row, col) ==
    [x |-> ((maxRowPegs + 1) * fw + (2 * col - PegsInRow(row) + 1) * fw)
           \div (2 * (maxRowPegs + 1)),
     y |-> (8 * CanvasHeight(fw)) \div 100
           + (row * 866 * fw) \div (1000 * (maxRowPegs + 1))]

\* pegLocations after initPegs, in the order forEach visits them
RECURSIVE PegRowsFrom(_, _)
PegRowsFrom(fw, row) ==
    IF row = pegRows THEN <<>>
    ELSE [k \in 1..PegsInRow(row) |-> PegAt(fw, row, k - 1)]
         \o PegRowsFrom(fw, row + 1)

PegLocations(fw) == PegRowsFrom(fw, 0)

\* Math.sqrt of n, rounded down, for a root known to lie in lo..hi
RECURSIVE SqrtBetween(_, _, _)
SqrtBetween(n, lo, hi) ==
    IF lo = hi THEN lo
    ELSE LET mid == (lo + hi + 1) \div 2
         IN IF mid * mid <= n THEN SqrtBetween(n, mid, hi)
            ELSE SqrtBetween(n, lo, mid - 1)

\* dist < minDist for the ball centre (x, y) and a peg
InContact(fw, x, y, peg) ==
    /\ Abs(x - peg.x) < MinDist(fw)
    /\ Abs(y - peg.y) < MinDist(fw)
    /\ (x - peg.x) * (x - peg.x) + (y - peg.y) * (y - peg.y)
         < MinDist(fw) * MinDist(fw)

\* dist of a ball in contact with the peg
PegDistance(fw, x, y, peg) ==
    SqrtBetween((x - peg.x) * (x - peg.x) + (y - peg.y) * (y - peg.y),
                0, MinDist(fw))

\* (Math.cos(angle), Math.sin(angle)) for angle = Math.atan2(pDy, pDx)
Direction(pDx, pDy, dist) ==
    IF dist = 0 THEN [c |-> 1000, s |-> 0]
    ELSE [c |-> (pDx * 1000) \div dist, s |-> (pDy * 1000) \div dist]

\* Math.cos and Math.sin of an angle of a thousandths of a radian, at most
\* 1.25 in size, by their power series
Cos(a) ==
    LET a2 == (a * a) \div 1000
        a4 == (a2 * a2) \div 1000
        a6 == (a4 * a2) \div 1000
    IN 1000 - a2 \div 2 + a4 \div 24 - a6 \div 720

Sin(a) ==
    LET a2 == (a * a) \div 1000
        a3 == (a2 * a) \div 1000
        a5 == (a3 * a2) \div 1000
        a7 == (a5 * a2) \div 1000
    IN a - a3 \div 6 + a5 \div 120 - a7 \div 5040

\* a faulty pull: a steering force of full strength
PullStrengthSteering(time, lastHitTime) == 1000

\* pullStrength of lines 1385-1396 at the given time of the step
PullStrength(time, lastHitTime) ==
    LET removed == 0
        afterHit == IF lastHitTime # NeverHit /\ time - lastHitTime < hitDampingMs
                    THEN (removed * 100) \div 1000 ELSE removed
    IN IF lastHitTime # NeverHit /\ time > lastHitTime
       THEN (afterHit * 200) \div 1000 ELSE afterHit

\* the body of the forEach of step 3 for one peg in contact: b holds the
\* position, the velocity and the number of pegs resolved so far in this step
ResolvePeg(fw, b, peg, r) ==
    LET pDx == b.x - peg.x
        pDy == b.y - peg.y
        dist == PegDistance(fw, b.x, b.y, peg)
        overlap == MinDist(fw) - dist
        dir == Direction(pDx, pDy, dist)
        deflectOffset == (r - 500)
                         + (IF r < 200 THEN ((r - 500) * 1500) \div 1000 ELSE 0)
        cosDeflect == (dir.c * Cos(deflectOffset) - dir.s * Sin(deflectOffset))
                      \div 1000
        sinDeflect == (dir.s * Cos(deflectOffset) + dir.c * Sin(deflectOffset))
                      \div 1000
        deflectStrength == 500 + (r * 1200) \div 1000
        horizontalFactor == 800 + (r * 800) \div 1000
        verticalFactor == 600 + (r * 800) \div 1000
    IN [x |-> b.x + (dir.c * overlap * 11) \div 10000,
        y |-> b.y + (dir.s * overlap * 11) \div 10000,
        vx |-> b.vx + (((cosDeflect * deflectStrength) \div 1000)
                       * horizontalFactor) \div 1000,
        vy |-> Max(800, b.vy + (((sinDeflect * deflectStrength) \div 1000)
                                * verticalFactor) \div 1000),
        resolved |-> b.resolved + 1]

\* pegLocations.forEach of step 3 from peg k on
RECURSIVE ResolvePegs(_, _, _, _, _)
ResolvePegs(fw, pegs, k, b, r) ==
    IF k > Len(pegs) THEN b
    ELSE IF InContact(fw, b.x, b.y, pegs[k])
    THEN ResolvePegs(fw, pegs, k + 1, ResolvePeg(fw, b, pegs[k], r), r)
    ELSE ResolvePegs(fw, pegs, k + 1, b, r)

\* totalPushX, totalPushY of step 7 from peg k on, for the ball at (x, y)
RECURSIVE TotalPush(_, _, _, _, _)
TotalPush(fw, pegs, k, x, y) ==
    IF k > Len(pegs) THEN [x |-> 0, y |-> 0]
    ELSE LET rest == TotalPush(fw, pegs, k + 1, x, y)
             dist == PegDistance(fw, x, y, pegs[k])
             dir == Direction(x - pegs[k].x, y - pegs[k].y, dist)
             overlap == MinDist(fw) - dist
         IN IF InContact(fw, x, y, pegs[k])
            THEN [x |-> rest.x + (dir.c * overlap * 105) \div 100000,
                  y |-> rest.y + (dir.s * overlap * 105) \div 100000]
            ELSE rest

\* a faulty start: the ball is released with the same velocity whatever the
\* draws
AttemptStartUndrawn(fw, startX, target, ri, rh) ==
    [target |-> target, rh |-> rh, i |-> 0,
     x |-> startX, y |-> StartY(fw), vx |-> 0, vy |-> 800,
     path |-> <<[x |-> startX, y |-> StartY(fw), time |-> 0]>>,
     hitCount |-> 0, hitWall |-> FALSE, lastHitTime |-> NeverHit,
     landed |-> FALSE, finished |-> FALSE, validated |-> FALSE,
     isValidPath |-> FALSE, duration |-> 0,
     resolved |-> 0, hits |-> 0, finalVelocityX |-> 0]

\* the state of the attempt before the for-loop (lines 1305-1369) for the
\* start, the target and the two Math.random() values of the attempt
AttemptStart(fw, startX, target, ri, rh) ==
    LET distanceToTarget == BucketLocations(fw)[target].x - startX
        edgeFactor == IF target = 1 \/ target = bucketCount THEN 1000
                      ELSE IF target = 2 \/ target = bucketCount - 1 THEN 700
                      ELSE 400
        baseVelocity == Sign(distanceToTarget)
                        * ((Min((Abs(distanceToTarget) * 10) \div Fine, 1500)
                            * edgeFactor) \div 1000)
        randomFactor == ((1000 - Abs(edgeFactor - 500)) * 1500) \div 1000
        drawnVx == IF ri < 300
                   THEN (baseVelocity * (1000 + ri)) \div 1000
                        + ((ri - 500) * 2500) \div 1000
                   ELSE baseVelocity + ((ri - 500) * randomFactor) \div 1000
        nudgedVx == IF target = 1 /\ drawnVx > -200
                    THEN drawnVx - (500 + (ri * 500) \div 1000)
                    ELSE IF target = bucketCount /\ drawnVx < 200
                    THEN drawnVx + (500 + (ri * 500) \div 1000)
                    ELSE drawnVx
        verticalVariation == IF ri < 300 THEN 800 ELSE 400
        baseVertical == 800 + (edgeFactor * 400) \div 1000
        drawnVy == IF ri < 150 THEN baseVertical + 500 + (ri * 800) \div 1000
                   ELSE baseVertical + (ri * verticalVariation) \div 1000
    IN [target |-> target, rh |-> rh, i |-> 0,
        x |-> startX, y |-> StartY(fw), vx |-> nudgedVx, vy |-> drawnVy,
        path |-> <<[x |-> startX, y |-> StartY(fw), time |-> 0]>>,
        hitCount |-> 0, hitWall |-> FALSE, lastHitTime |-> NeverHit,
        landed |-> FALSE, finished |-> FALSE, validated |-> FALSE,
        isValidPath |-> FALSE, duration |-> 0,
        \* history: the pegs resolved in step 3 of the latest iteration, the
        \* peg contacts of steps 3 and 8 over the fall, and finalVelocityX
        resolved |-> 0, hits |-> 0, finalVelocityX |-> 0]

\* one iteration of the for-loop (lines 1372-1580) on the attempt s
Iterate(fw, s) ==
    LET target == BucketLocations(fw)[s.target]
        targetX == target.x
        targetY == target.y
        totalDurationMs == CHOOSE d \in TotalDurations : TRUE
        timeStep == totalDurationMs \div loopSteps
        i == s.i + 1
        time == i * timeStep
        pegs == PegLocations(fw)
        ballRadius == FineBallRadius(fw)
        \* 1. gravity, and the pull toward the target
        fallingVy == s.vy + (gravity * timeStep) \div 16
        pulledVx == s.vx + ((targetX - s.x) * PullStrength(time, s.lastHitTime)
                            * timeStep) \div (16 * Fine)
        \* 3. peg interactions
        hit == ResolvePegs(fw, pegs, 1,
                           [x |-> s.x, y |-> s.y, vx |-> pulledVx, vy |-> fallingVy,
                            resolved |-> 0], s.rh)
        hitTime == IF hit.resolved > 0 THEN time ELSE s.lastHitTime
        \* 4. damping and the clamp
        dampedVx == (hit.vx * 985) \div 1000
        dampedVy == Min((hit.vy * 99) \div 100, maxFallVelocity)
        \* 5. position, 6. walls and top
        movedX == hit.x + (dampedVx * timeStep * Fine) \div 16000
        movedY == hit.y + (dampedVy * timeStep * Fine) \div 16000
        atLeftWall == movedX - ballRadius < 0
        atRightWall == ~atLeftWall /\ movedX + ballRadius > fw
        currentX == IF atLeftWall THEN ballRadius
                    ELSE IF atRightWall THEN fw - ballRadius ELSE movedX
        currentVx == IF atLeftWall \/ atRightWall THEN (dampedVx * (-6)) \div 10
                     ELSE dampedVx
        currentY == Max(movedY, s.path[1].y)
        \* the landing point (lines 1472-1530)
        prevPoint == Last(s.path)
        dyTotal == currentY - prevPoint.y
        dyNeeded == targetY - prevPoint.y
        tDen == IF dyTotal = 0 THEN 1 ELSE Abs(dyTotal)
        tNum == IF dyTotal = 0 THEN 1
                ELSE Max(0, Min(tDen, dyNeeded * Sign(dyTotal)))
        finalX == prevPoint.x + ((currentX - prevPoint.x) * tNum) \div tDen
        finalTime == prevPoint.time + ((time - prevPoint.time) * tNum) \div tDen
        safetyMargin == target.width \div 10
        maxSafeVelocity == 2 * Fine
        rejected == \/ finalX < BucketLeft(target) + safetyMargin
                    \/ finalX > BucketRight(target) - safetyMargin
                    \/ Abs(currentX - prevPoint.x) > maxSafeVelocity
        \* 7. the push out of the pegs, 8. the hit count and the wall
        push == TotalPush(fw, pegs, 1, currentX, currentY)
        pushedX == currentX + push.x
        pushedY == currentY + push.y
        counted == Cardinality({k \in 1..Len(pegs) :
                                   InContact(fw, pushedX, pushedY, pegs[k])})
        touchesWall == pushedX <= ballRadius \/ pushedX >= fw - ballRadius
    IN IF currentY >= targetY
       THEN [s EXCEPT !.i = i, !.x = currentX, !.y = currentY,
                      !.vx = currentVx, !.vy = dampedVy,
                      !.lastHitTime = hitTime,
                      !.path = Append(@, [x |-> finalX, y |-> targetY,
                                          time |-> finalTime]),
                      !.duration = finalTime,
                      !.landed = TRUE, !.finished = TRUE,
                      !.isValidPath = IF rejected THEN FALSE ELSE @,
                      !.resolved = hit.resolved, !.hits = @ + hit.resolved,
                      !.finalVelocityX = currentX - prevPoint.x]
       ELSE [s EXCEPT !.i = i, !.x = pushedX, !.y = pushedY,
                      !.vx = currentVx, !.vy = dampedVy,
                      !.lastHitTime = hitTime,
                      !.hitCount = counted,
                      !.hitWall = @ \/ touchesWall,
                      !.path = IF i < loopSteps
                               THEN Append(@, [x |-> pushedX, y |-> pushedY,
                                               time |-> time])
                               ELSE IF Last(@).y < targetY
                                    THEN Append(@, [x |-> targetX, y |-> targetY,
                                                    time |-> totalDurationMs])
                                    ELSE @,
                      !.duration = IF i < loopSteps THEN @ ELSE totalDurationMs,
                      !.finished = (i = loopSteps),
                      !.resolved = hit.resolved,
                      !.hits = @ + hit.resolved + counted]

\* the do-loop is entered for a start that calculateInitialBallPosition can
\* return and a bucket of the board
StartAttempt ==
    /\ sim = <<>>
    /\ \E startX \in InitialBallPositions(canvasWidth), target \in 1..bucketCount,
          ri \in Rand, rh \in Rand :
         sim' = <<AttemptStart(Scale * canvasWidth, Scale * startX, target, ri, rh)>>
    /\ thrown' = FALSE
    /\ UNCHANGED <<canvasWidth, selectedBucket, isGameActive, gameState, ball,
                   targetBucket, animationPath, animationStartTime,
                   animationDuration, landingHandled, gameStats,
                   currentCleanupInterval, timers, now, landings, landedAt,
                   genResult, engine>>

\* the for-loop runs one iteration
StepAttempt ==
    /\ sim # <<>>
    /\ ~sim[1].finished
    /\ sim' = <<Iterate(Scale * canvasWidth, sim[1])>>
    /\ animationDuration' = IF sim'[1].finished THEN sim'[1].duration
                            ELSE animationDuration
    /\ thrown' = FALSE
    /\ UNCHANGED <<canvasWidth, selectedBucket, isGameActive, gameState, ball,
                   targetBucket, animationPath, animationStartTime,
                   landingHandled, gameStats, currentCleanupInterval, timers,
                   now, landings, landedAt, genResult, engine>>

\* "Stricter Path Validation" after the for-loop: an accepted attempt ends the
\* do-loop and its path is returned
ValidateAttempt ==
    /\ sim # <<>>
    /\ sim[1].finished
    /\ ~sim[1].validated
    /\ sim' = <<[sim[1] EXCEPT
                   !.validated = TRUE,
                   !.isValidPath = ValidatePath(Scale * canvasWidth,
                                                sim[1].target, sim[1])]>>
    /\ thrown' = FALSE
    /\ UNCHANGED <<canvasWidth, selectedBucket, isGameActive, gameState, ball,
                   targetBucket, animationPath, animationStartTime,
                   animationDuration, landingHandled, gameStats,
                   currentCleanupInterval, timers, now, landings, landedAt,
                   genResult, engine>>

StepNext ==
    \/ StartAttempt
    \/ StepAttempt
    \/ ValidateAttempt

StepSpec == Init /\ [][StepNext]_vars

\* ---------------------------------- the real-time engine (part_000) at work
\* display frames per run, the time from one frame to the next, and the
\* updateBall calls a ball needs from its creation to the bucket
EngineFrames == 10
EngineFrameMs == 500
FallUpdates == 4
\* the delay after which a slowDownInterval removes the ball
slowDownDelay == 1500
\* the buckets whose buttons are clicked: an edge bucket and the centre bucket
EngineButtons == {1, bucketCount \div 2 + 1}

EngineUnchanged ==
    UNCHANGED <<canvasWidth, selectedBucket, isGameActive, gameState, ball,
                targetBucket, animationPath, animationStartTime,
                animationDuration, landingHandled, gameStats,
                currentCleanupInterval, timers, now, thrown, landings, landedAt,
                genResult, sim>>

\* handleBallLanding(bucketNumber, true) of the engine
EngineBallLanding(e) ==
    IF e.landingHandled THEN e
    ELSE [e EXCEPT !.landingHandled = TRUE,
                   !.successfulDrops = @ + 1,
                   !.gameState = "completed"]

\* checkBucketLanding when the ball is inside its target bucket: the landing is
\* counted, playBucketVictoryAnimation stamps the bucket's highlightTime, the
\* game ends, one more gameLoop callback is requested and a slowDownInterval
\* that closes over the bucket is started
EngineLanding(e) ==
    LET counted == EngineBallLanding(e)
    IN [counted EXCEPT !.highlightTime[e.targetBucket] = e.clock,
                       !.isGameActive = FALSE,
                       !.gameState = "completed",
                       !.pending = @ + 1,
                       !.intervals = @ \cup {[bucket |-> e.targetBucket,
                                              drop |-> e.totalDrops]}]

\* updateBall: nothing without a ball or an active game; else the ball moves,
\* and the call that brings it into the bucket lands it
EngineUpdateBall(e) ==
    IF e.ball = 0 \/ ~e.isGameActive THEN e
    ELSE IF e.fallen + 1 < FallUpdates THEN [e EXCEPT !.fallen = @ + 1]
    ELSE EngineLanding([e EXCEPT !.fallen = @ + 1])

\* one gameLoop callback; the callback it requests at its end takes its place
\* among the pending ones
EngineGameLoop(e) ==
    IF e.isGameActive
    THEN EngineUpdateBall([e EXCEPT !.updates = @ + 1])
    ELSE e

\* the k callbacks that were pending when the frame began, one after another
RECURSIVE EngineRunCallbacks(_, _)
EngineRunCallbacks(e, k) ==
    IF k = 0 THEN e ELSE EngineRunCallbacks(EngineGameLoop(e), k - 1)

\* handleBucketSelection of the engine
EngineBucketSelection ==
    /\ ~engine.isGameActive
    /\ \E b \in EngineButtons :
         engine' = [engine EXCEPT !.selectedBucket = b]
    /\ EngineUnchanged

\* handleDropBall of the engine, createBall included
EngineDropBall ==
    /\ engine.totalDrops < MaxDrops
    /\ ~(engine.isGameActive \/ engine.selectedBucket = NullBucket)
    /\ engine' = [engine EXCEPT
                    !.isGameActive = TRUE,
                    !.landingHandled = FALSE,
                    !.gameState = "dropping",
                    !.totalDrops = @ + 1,
                    !.targetBucket = engine.selectedBucket,
                    !.highlightTime[engine.selectedBucket] = engine.clock,
                    !.ball = engine.totalDrops + 1,
                    !.fallen = 0,
                    !.pending = @ + 1]
    /\ EngineUnchanged

\* handleReset of the engine, resetBall included
EngineReset ==
    /\ engine.isGameActive \/ engine.ball # 0
    /\ engine' = [engine EXCEPT !.ball = 0,
                                !.targetBucket = NullBucket,
                                !.isGameActive = FALSE,
                                !.gameState = "ready"]
    /\ EngineUnchanged

\* a display frame: the clock moves on and every pending gameLoop callback runs
EngineFrame ==
    /\ engine.clock < EngineFrames * EngineFrameMs
    /\ engine' = EngineRunCallbacks([engine EXCEPT !.clock = @ + EngineFrameMs,
                                                   !.updates = 0],
                                    engine.pending)
    /\ EngineUnchanged

\* a tick of a pending slowDownInterval
EngineIntervalTick ==
    /\ \E iv \in engine.intervals :
         engine' =
           IF engine.ball # 0
           THEN IF engine.clock - engine.highlightTime[iv.bucket] > slowDownDelay
                THEN [engine EXCEPT !.ball = 0, !.intervals = @ \ {iv}]
                ELSE engine
           ELSE [engine EXCEPT !.intervals = @ \ {iv}]
    /\ EngineUnchanged

EngineNext ==
    \/ EngineBucketSelection
    \/ EngineDropBall
    \/ EngineReset
    \/ EngineFrame
    \/ EngineIntervalTick

EngineSpec == Init /\ [][EngineNext]_vars

\* ------------------------------------------------------------------ properties
\* a step in which handleDropBall installed a trajectory
DropAccepted == gameStats'.totalDrops = gameStats.totalDrops + 1

\* the last keyframe of path lies in the closed span of bucket t of board w
EndsInBucket(w, t, path) ==
    /\ BucketExists(t)
    /\ path # <<>>
    /\ Last(path).x >= BucketLeft(BucketLocations(w)[t])
    /\ Last(path).x <= BucketRight(BucketLocations(w)[t])

\* the last keyframe of path lies at the top of bucket t of board w
EndsAtBucketTop(w, t, path) ==
    /\ BucketExists(t)
    /\ path # <<>>
    /\ Last(path).y = BucketLocations(w)[t].y

\* the statistics a landing writes
LandingRecord ==
    <<gameStats.successfulDrops, gameStats.lastResult, gameStats.lastBucketLanded>>

\* C1: whatever the random draws, the trajectory handleDropBall installs in
\* animationPath (accepted simulated path or bezier fallback) has its final
\* keyframe inside the horizontal span of the selected bucket and at that
\* bucket's top, on the board of the drop (the 800x1040 board included).
C1_InstalledPathEndsInTarget ==
    [][DropAccepted =>
         /\ targetBucket' = selectedBucket
         /\ EndsInBucket(canvasWidth, targetBucket', animationPath')
         /\ EndsAtBucketTop(canvasWidth, targetBucket', animationPath')]_vars

\* a drop just installed on the 800x1040 board, its trajectory ending in the target
C1_Witness ==
    /\ gameState = "dropping"
    /\ animationStartTime = now
    /\ canvasWidth = Scale * maxWidth
    /\ CanvasHeight(canvasWidth) = Scale * 1040
    /\ EndsInBucket(canvasWidth, targetBucket, animationPath)
    /\ EndsAtBucketTop(canvasWidth, targetBucket, animationPath)

\* C2: after any sequence of selections, drop requests, resets, resizes and
\* frames no landing is recorded as a miss: lastResult is never 'failure'.
C2_NoLandingRecordedAsMiss == gameStats.lastResult # "failure"

\* C3: for a valid target every path generateAnimationPath returns is non-empty
\* and its last keyframe lies inside the target bucket's horizontal span.
C3_ReturnedPathEndsInTarget ==
    (/\ genResult # <<>>
     /\ genResult[1].kind = "return"
     /\ BucketExists(genResult[1].target))
    => EndsInBucket(canvasWidth, genResult[1].target, genResult[1].path)

\* C4: the final keyframe of the trajectory used for a drop lies inside the
\* target bucket's span reduced by 10% of the bucket width on each side.
C4_InstalledPathKeepsSafetyMargin ==
    [][DropAccepted =>
         LET bucket == BucketLocations(canvasWidth)[targetBucket']
             safetyMargin == bucket.width \div 10
             finalX == Last(animationPath').x
         IN /\ finalX >= BucketLeft(bucket) + safetyMargin
            /\ finalX <= BucketRight(bucket) - safetyMargin]_vars

\* C5: when every attempt of the retry loop is rejected, generateAnimationPath
\* still returns normally, without raising an error.
C5_ExhaustionReturnsNormally ==
    (genResult # <<>> /\ BucketExists(genResult[1].target))
    => (genResult[1].kind # "throw" /\ ~thrown)

\* C6: a drop request whose selected target names no bucket (0, 6, NaN) is
\* rejected with no state change: isGameActive, gameState, ball, animationPath,
\* targetBucket and gameStats stay as they were and no error is raised.
C6_InvalidTargetRejected ==
    [][(/\ HandleDropBall
        /\ selectedBucket # NullBucket
        /\ ~BucketExists(selectedBucket))
       => (/\ UNCHANGED <<isGameActive, gameState, ball, animationPath,
                          targetBucket, gameStats>>
           /\ ~thrown')]_vars

\* C7: while a drop stays in Dropping (no reset, no landing), a drop request and
\* a selection click are ignored and no event (frame, resize, timer) changes
\* animationPath, animationStartTime, animationDuration or targetBucket.
C7_TrajectoryFixedWhileDropping ==
    [][(gameState = "dropping" /\ gameState' = "dropping") =>
         /\ UNCHANGED <<animationPath, animationStartTime, animationDuration,
                        targetBucket, selectedBucket>>
         /\ gameStats' = gameStats]_vars

\* a drop in flight that a frame has already advanced
C7_Witness ==
    /\ gameState = "dropping"
    /\ now > animationStartTime
    /\ now - animationStartTime < animationDuration
    /\ ball # <<[x |-> animationPath[1].x, y |-> animationPath[1].y]>>

\* C8: a reset during Dropping moves to 'ready' at once, clearing ball,
\* animationPath and targetBucket, and no landing is recorded for the discarded
\* drop: in Dropping lastBucketLanded is already null, and successfulDrops,
\* lastResult and lastBucketLanded change only when a drop in Dropping lands
\* (lastBucketLanded also when a new drop starts, to null), whatever fires.
C8_ResetDiscardsDrop ==
    [][/\ (gameState = "dropping" /\ gameState' = "ready") =>
            /\ ball' = <<>>
            /\ animationPath' = <<>>
            /\ targetBucket' = NullBucket
            /\ ~isGameActive'
            /\ gameStats' = gameStats
       /\ gameState' = "dropping" => gameStats'.lastBucketLanded = NullBucket
       /\ LandingRecord' # LandingRecord =>
            \/ /\ gameState = "dropping"
               /\ gameState' = "completed"
               /\ animationPath # <<>>
            \/ /\ DropAccepted
               /\ gameStats'.successfulDrops = gameStats.successfulDrops
               /\ gameStats'.lastResult = gameStats.lastResult]_vars

\* ready again after a drop that never landed, with the clock advanced
C8_Witness ==
    /\ gameState = "ready"
    /\ gameStats.totalDrops = 1
    /\ gameStats.lastResult = "null"
    /\ animationPath = <<>>
    /\ ball = <<>>
    /\ now >= 2 * FrameMs

\* C9: the landing of a drop is signalled exactly once: handleBallLanding takes
\* effect at most once per drop, so successfulDrops never exceeds totalDrops,
\* and a later frame that reaches the landing branch records nothing.
C9_LandingCountedOnce ==
    /\ landings <= 1
    /\ gameStats.successfulDrops <= gameStats.totalDrops
    /\ landings = 1 => gameStats.lastResult # "null"

\* a landed drop whose landing branch ran again, a frame or more after the
\* landing was due (the cleanup timeout was set again), still counted once
C9_Witness ==
    /\ gameState = "completed"
    /\ landings = 1
    /\ landingHandled
    /\ animationPath # <<>>
    /\ \E tm \in timers :
          /\ tm.id = currentCleanupInterval
          /\ tm.due - cleanupDelay - animationStartTime
                >= Last(animationPath).time + FrameMs

C11_ResetFromCompletedReachesReady ==
    gameState = "completed" =>
        /\ handleReset.gameState = "ready"
        /\ handleReset.animationPath = <<>>
        /\ handleReset.targetBucket = NullBucket

\* C12: in every state where gameState is 'dropping' the outcome is decided:
\* animationPath has at least two keyframes, ball is non-null and targetBucket
\* is a bucket number in 1..5. The synthesis is part of the one handler step
\* that enters 'dropping', so no frame tick sees it half done.
C12_DroppingHasDecidedOutcome ==
    gameState = "dropping" =>
        /\ Len(animationPath) >= 2
        /\ ball # <<>>
        /\ targetBucket \in 1..bucketCount

\* a second drop in flight after a frame tick, the timeout of the first landing
\* having fired meanwhile
C12_Witness ==
    /\ gameState = "dropping"
    /\ gameStats.totalDrops = 2
    /\ now > animationStartTime
    /\ timers = {}
    /\ currentCleanupInterval = 0

\* C13: every drop that enters Dropping eventually leaves it: with frame ticks
\* going on, either a reset takes it to Ready or gameState becomes 'completed'
\* with the landing recorded.
C13_DroppingEventuallyCompletes ==
    (gameState = "dropping") ~>
        \/ gameState = "ready"
        \/ /\ gameState = "completed"
           /\ landings = 1
           /\ gameStats.lastBucketLanded # NullBucket

\* a drop requested when the clock bound was reached has landed
C13_Witness ==
    /\ gameState = "completed"
    /\ landings = 1
    /\ gameStats.lastBucketLanded # NullBucket
    /\ animationStartTime = MaxFrames * FrameMs

\* C14: a cleanup timeout never acts on a later drop: a timeout that fires
\* leaves the ball alone while a drop is in Dropping, and a timeout that takes
\* the ball away does so no earlier than cleanupDelay after the landing of the
\* drop the ball belongs to.
C14_TimeoutNeverActsOnLaterDrop ==
    [][(CleanupTimeout /\ ball # <<>> /\ ball' = <<>>) =>
          /\ gameState # "dropping"
          /\ landings = 1
          /\ now >= landedAt + cleanupDelay]_vars

\* the timeout of an earlier drop is due while a later drop is in Dropping
C14_Witness ==
    /\ gameState = "dropping"
    /\ ball # <<>>
    /\ \E tm \in timers : tm.drop < gameStats.totalDrops /\ tm.due <= now

\* C15: gameStats.totalDrops equals the number of landings recorded by
\* handleBallLanding: both start at 0, and totalDrops goes up by one in exactly
\* the steps that record a landing, so a drop discarded by reset is not counted.
C15_TotalDropsCountsLandings ==
    [][/\ gameStats'.totalDrops \in {gameStats.totalDrops, gameStats.totalDrops + 1}
       /\ gameStats'.totalDrops = gameStats.totalDrops + 1
              <=> landings' = landings + 1]_vars

\* keyframe times of path start at 0 and are strictly increasing
MonotoneTimes(path) ==
    /\ path[1].time = 0
    /\ \A i \in 1..(Len(path) - 1) : path[i].time < path[i + 1].time

\* C16: in every trajectory installed for playback the keyframe times are
\* strictly increasing, the first keyframe has time 0 and animationDuration is
\* the time of the last keyframe, whether the path ends by landing
\* interpolation, by the forced last keyframe or is the bezier fallback.
C16_InstalledPathMonotoneDuration ==
    gameState = "dropping" =>
        /\ MonotoneTimes(animationPath)
        /\ animationDuration = Last(animationPath).time

\* a simulated path ended by the forced last keyframe is being played
C16_Witness ==
    /\ gameState = "dropping"
    /\ Len(animationPath) = steps + 1
    /\ Last(animationPath).x = bucketLocations[targetBucket].x
    /\ animationDuration \in TotalDurations

\* a simulated path ended by landing interpolation, after the first step, is
\* being played
C16_WitnessInterpolated ==
    /\ gameState = "dropping"
    /\ Len(animationPath) > 2
    /\ animationDuration \notin TotalDurations \cup {pathDuration}

\* the bezier fallback is being played
C16_WitnessBezier ==
    /\ gameState = "dropping"
    /\ Len(animationPath) = bezierSegments + 1
    /\ animationDuration = pathDuration

\* the position of keyframe k
PointOf(k) == [x |-> k.x, y |-> k.y]

\* C17: updateBallAnimation clamps out-of-range queries without error: for
\* elapsed < 0 the ball is at the first keyframe, for elapsed >= animationDuration
\* at the last keyframe, and on a trajectory of one keyframe at that keyframe
\* for every elapsed value.
C17_OutOfRangeQueriesClamped ==
    [][(QueryAnimation /\ isGameActive) =>
          LET elapsedTime == now' - animationStartTime
          IN /\ ~thrown'
             /\ elapsedTime < 0 => ball' = <<PointOf(animationPath[1])>>
             /\ elapsedTime >= animationDuration =>
                    ball' = <<PointOf(Last(animationPath))>>
             /\ Len(animationPath) = 1 => ball' = <<PointOf(animationPath[1])>>]_vars

\* the linear interpolation at elapsedTime between keyframes a and b
Lerp(a, b, elapsedTime) ==
    [x |-> a.x + ((b.x - a.x) * (elapsedTime - a.time)) \div (b.time - a.time),
     y |-> a.y + ((b.y - a.y) * (elapsedTime - a.time)) \div (b.time - a.time)]

\* C18: for a trajectory with strictly increasing times and 0 <= elapsed <
\* animationDuration, the position updateBallAnimation sets is the linear
\* interpolation between the keyframes i and i+1 with time_i <= elapsed <
\* time_{i+1}; it is a function of the trajectory and elapsed alone (the
\* previous ball position has no part in it), and at elapsed 0 it is the first
\* keyframe.
C18_PositionIsLinearInterpolation ==
    [][(/\ QueryAnimation
        /\ isGameActive
        /\ \A i \in 1..(Len(animationPath) - 1) :
              animationPath[i].time < animationPath[i + 1].time
        /\ now' - animationStartTime >= 0
        /\ now' - animationStartTime < animationDuration) =>
          LET elapsedTime == now' - animationStartTime
          IN /\ ~thrown'
             /\ \A i \in 1..(Len(animationPath) - 1) :
                   (/\ animationPath[i].time <= elapsedTime
                    /\ elapsedTime < animationPath[i + 1].time) =>
                   ball' = <<Lerp(animationPath[i], animationPath[i + 1],
                                  elapsedTime)>>
             /\ elapsedTime = 0 => ball' = <<PointOf(animationPath[1])>>]_vars

\* a query strictly inside the second segment of a three-keyframe trajectory
\* has put the ball between its keyframes, the ball having been elsewhere
C18_Witness ==
    /\ isGameActive
    /\ Len(animationPath) = 3
    /\ animationPath[2].time < now - animationStartTime
    /\ now - animationStartTime < animationPath[3].time
    /\ animationPath[2].x # animationPath[3].x
    /\ ball = <<Lerp(animationPath[2], animationPath[3], now - animationStartTime)>>
    /\ ball[1].x # animationPath[2].x
    /\ ball[1].x # animationPath[3].x

C20_ZeroSizeLayoutClamped ==
    canvasWidth <= 0 =>
        /\ RowOfSpacings(canvasWidth) > 0
        /\ \A n \in 1..bucketCount : bucketLocations[n].width > 0
        /\ PegRadius(canvasWidth) > 0
        /\ BallRadius(canvasWidth) > 0

\* the attempt of the step-by-step simulation, once validation accepted it and
\* handleDropBall's bucket check passes: its path is the trajectory of a drop
AttemptUsed ==
    /\ sim # <<>>
    /\ sim[1].validated
    /\ sim[1].isValidPath
    /\ LandsInSelected(Scale * canvasWidth, sim[1].target, sim[1].path)

\* The farthest the simulation moves the ball down between two keyframes dt ms
\* apart: the fall velocity is clamped to maxFallVelocity per 16 ms, and the
\* push-outs of steps 3 and 7 move it by less than 1.1 + 1.05 times minDist
\* for each peg it overlaps.
FallCeiling(fw, dt) ==
    (maxFallVelocity * dt * Fine) \div 16000
    + (215 * MaxPegOverlap * MinDist(fw)) \div 100

\* C21: every adjacent pair of keyframes of a trajectory used for a drop stays
\* below one ceiling of implied speed: no keyframe, the last one included,
\* lies farther below its predecessor than the simulation can move the ball
\* in the time between the two.
C21_NoKeyframeJumps ==
    AttemptUsed =>
        \A k \in 1..(Len(sim[1].path) - 1) :
            sim[1].path[k + 1].y - sim[1].path[k].y
                <= FallCeiling(Scale * canvasWidth,
                               sim[1].path[k + 1].time - sim[1].path[k].time)

\* the keyframes after the first step of the attempt that differs from the
\* attempt in hand in nothing but the initial-velocity draw ri
FirstKeyframesFor(ri) ==
    Iterate(Scale * canvasWidth,
            AttemptStart(Scale * canvasWidth, sim[1].path[1].x, sim[1].target,
                         ri, sim[1].rh)).path

C23_EdgePathHasEnoughHits ==
    (/\ sim # <<>>
     /\ sim[1].validated
     /\ sim[1].isValidPath
     /\ sim[1].target \in {1, bucketCount})
    => sim[1].hits >= minHitsForEdge

\* C24: no returned path has a final horizontal step above maxSafeVelocity (two
\* pixels): an attempt that lands with a larger one is rejected.
C24_FinalStepWithinSafeVelocity ==
    (/\ sim # <<>>
     /\ sim[1].validated
     /\ sim[1].isValidPath
     /\ sim[1].landed)
    => Abs(sim[1].finalVelocityX) <= 2 * Fine

\* C25: in each simulation step at most one peg collision is resolved: the
\* push-out and the deflection of step 3 are applied for one peg only, also
\* when two pegs are within contact distance.
C25_OneCollisionPerStep ==
    sim # <<>> => sim[1].resolved <= 1

\* the attempt in hand, aimed at another bucket in the middle of its fall
Retargeted(t) == [sim[1] EXCEPT !.target = t]

\* the next bucket and the mirrored bucket of the target
OtherTargets == {(sim[1].target % bucketCount) + 1,
                 bucketCount + 1 - sim[1].target} \ {sim[1].target}

FallbackArcs ==
    {BezierPath(w, b, rs, re).path :
        w \in CanvasWidths, b \in 1..bucketCount, rs \in Rand,
        re \in BezierEndDraws}

\* C27: the fallback arc is monotonically falling: from one keyframe to the
\* next its y never decreases, and every keyframe lies between the start y
\* and the bucket top.
C27_FallbackArcFallsMonotonically ==
    (gameState = "dropping" /\ animationPath \in FallbackArcs) =>
        /\ \A k \in 1..(Len(animationPath) - 1) :
               animationPath[k].y <= animationPath[k + 1].y
        /\ \A k \in 1..Len(animationPath) :
               /\ animationPath[1].y <= animationPath[k].y
               /\ animationPath[k].y <= Last(animationPath).y

\* C28: between handlers isGameActive is true exactly when gameState is
\* "dropping"; in particular isGameActive is never true while there is no ball
\* and no trajectory.
C28_ActiveIffDropping ==
    /\ isGameActive <=> gameState = "dropping"
    /\ ~(isGameActive /\ ball = <<>> /\ animationPath = <<>>)

\* C29: a slowDownInterval started at a landing never clears the ball of a
\* later drop: while a drop is Dropping its ball is there.
C29_IntervalSparesLaterBall ==
    engine.gameState = "dropping" => engine.ball # 0

\* C30: one tick per frame: at most one gameLoop callback is pending at any
\* time, and updateBall runs at most once in a frame.
C30_OneTickPerFrame ==
    /\ engine.pending <= 1
    /\ engine.updates <= 1

====
